---- MODULE Spec2Model ----
(***************************************************************************)
(* Processor service: the job state machine of process_message             *)
(* (controllers/message_processor.py), the generation orchestrator         *)
(* generate_blog_post (services/blog_generator.py), the Firestore gateway  *)
(* (services/firestore.py) and the push endpoint (main.py).                *)
(*                                                                         *)
(* Every `await` on the store and the provider call is one atomic step of  *)
(* an invocation; the local computation between two awaits belongs to the  *)
(* step that precedes it.  Several invocations (Workers) may be in flight. *)
(***************************************************************************)
EXTENDS Integers, Sequences, FiniteSets, TLC

VARIABLES db, pc, msg, loc, outcome, hist, stats, delivered

vars == <<db, pc, msg, loc, outcome, hist, stats, delivered>>

(***************************************************************************)
(* Bounds of the model                                                     *)
(***************************************************************************)
\* total number of push deliveries in a behaviour
MaxDeliveries == 5

\* the invocations that can be in flight at once
Workers == {"w1", "w2"}

PostIds == {"p1"}

(***************************************************************************)
(* Program constants                                                       *)
(***************************************************************************)
\* config.py: Settings.FIRESTORE_POSTS_COLLECTION
FIRESTORE_POSTS_COLLECTION == "posts"
\* config.py: Settings.FIRESTORE_GENERATED_POSTS_COLLECTION
FIRESTORE_GENERATED_POSTS_COLLECTION == "generated_posts"
\* message_processor.py: the literal collection of the job records
JOBS_COLLECTION == "posts"
Collections == {JOBS_COLLECTION, FIRESTORE_POSTS_COLLECTION, FIRESTORE_GENERATED_POSTS_COLLECTION}

\* max_retries literal of a new job record, and the default of .get('max_retries', 3)
DefaultMaxRetries == 3
\* ProcessedBlogPost.action
ActionEnum == {"created", "updated", "deleted", "regenerate"}
\* ProcessedBlogPost.status
StatusEnum == {"processing", "completed", "error", "failed_permanently"}

HTTP_204_NO_CONTENT == 204
HTTP_500_INTERNAL_SERVER_ERROR == 500

(***************************************************************************)
(* Values                                                                  *)
(***************************************************************************)
\* Python None for a string-valued field, and for a list-valued field
None == "None"
Nil == << >>
Some(x) == << x >>
\* datetime.now(timezone.utc).isoformat()
Now == "now"
\* an epoch-millisecond timestamp
Timestamps == {1700000000}
Ts == CHOOSE t \in Timestamps : TRUE
\* JSON scalars of the wire format, tagged with their JSON type
JInt(n) == [int |-> n]
JStr(x) == [str |-> x]
\* a JSON string that spells the integer n in digits
JNumStr(n) == [numstr |-> n]

NoDoc == [absent |-> TRUE]
NoMsg == [absent |-> TRUE]

\* dict.get(key, default)
Get(d, key, default) == IF key \in DOMAIN d THEN d[key] ELSE default

\* bool(doc) of `if existing_record:` / `if original_post:` (None and {} are falsy)
Truthy(d) == d # NoDoc /\ DOMAIN d # {}

(***************************************************************************)
(* Briefs (BlogPostData) and inbound payloads                              *)
(***************************************************************************)
\* BlogPostData with the defaults of its optional fields filled in
BlogPostData(f) ==
  [ id       |-> f.id,
    title    |-> Get(f, "title", None),
    content  |-> Get(f, "content", None),
    keywords |-> Get(f, "keywords", Some(<< >>)),
    focus    |-> Get(f, "focus", ""),
    feedback |-> Get(f, "feedback", None) ]

\* the briefs a payload can carry, as JSON objects (absent key = key not sent)
FullBrief(id) ==
  [id |-> id, title |-> "Hello", keywords |-> Some(<<"a", "b">>), focus |-> "f"]
NullKeywordsBrief(id) ==
  [id |-> id, title |-> "Hello", content |-> "C0", keywords |-> Nil, focus |-> "f"]
FeedbackOnlyBrief(id) ==
  [id |-> id, feedback |-> "fb"]

WirePayload(id, action, brief) ==
  [postId |-> id, action |-> action, timestamp |-> JInt(Ts), data |-> brief]

\* "archived" is a string outside ProcessedBlogPost.action
WellFormedPayloads ==
  UNION { { WirePayload(id, "created", FullBrief(id)),
            WirePayload(id, "created", NullKeywordsBrief(id)),
            WirePayload(id, "updated", FullBrief(id)),
            WirePayload(id, "deleted", FullBrief(id)),
            WirePayload(id, "regenerate", FeedbackOnlyBrief(id)),
            WirePayload(id, "archived", FullBrief(id)),
            [WirePayload(id, "updated", FullBrief(id)) EXCEPT !.timestamp = JNumStr(Ts)] }
        : id \in PostIds }

MalformedPayloads ==
  { [action |-> "created", timestamp |-> JInt(Ts), data |-> [id |-> "p1", title |-> "Hello"]],
    [postId |-> "p1", action |-> "created", timestamp |-> JStr("soon"), data |-> [id |-> "p1"]],
    [postId |-> "p1", action |-> "created", timestamp |-> JInt(Ts)],
    [postId |-> "p1", timestamp |-> JInt(Ts), data |-> [id |-> "p1", title |-> "Hello"]],
    [postId |-> "p1", action |-> "created", timestamp |-> JInt(Ts), data |-> [title |-> "Hello"]] }

\* the Pub/Sub push envelope: message.data is the base64 of the JSON payload
Envelope(payload) == [data |-> [b64 |-> payload], messageId |-> "m"]

\* the pushes whose payload misses a required field or has one of the wrong type
MalformedInputs == {Envelope(p) : p \in MalformedPayloads}

\* a payload POSTed without the envelope (its own "data" key is the Brief)
Inputs == {Envelope(p) : p \in WellFormedPayloads \cup MalformedPayloads}
            \cup {[postId |-> "p1", action |-> "created", timestamp |-> JInt(Ts),
                   data |-> [id |-> "p1", title |-> "Hello"]]}

\* lines 70-74: base64.b64decode + json.loads of message_data["data"], else the dict itself
CanDecode(message_data) ==
  "data" \in DOMAIN message_data => "b64" \in DOMAIN message_data.data
Payload(message_data) ==
  IF "data" \in DOMAIN message_data THEN message_data.data.b64 ELSE message_data

\* BlogPostMessage.model_validate: postId: str, action: str, timestamp: int,
\* data: BlogPostData (id: str required); the validator takes an integer or a
\* string of digits for an int field and refuses any other string
ValidPayload(p) ==
  /\ {"postId", "action", "timestamp", "data"} \subseteq DOMAIN p
  /\ "int" \in DOMAIN p.timestamp \/ "numstr" \in DOMAIN p.timestamp
  /\ "id" \in DOMAIN p.data

\* the int a validated int field holds
IntField(v) == IF "int" \in DOMAIN v THEN v.int ELSE v.numstr

BlogPostMessage(p) ==
  [ post_id   |-> p.postId,
    action    |-> p.action,
    timestamp |-> IntField(p.timestamp),
    data      |-> BlogPostData(p.data) ]

\* MergeOriginal that leaves the incoming Brief as it came
MergeOriginalKeepsIncoming(d, original_post) == d

\* lines 85-88: d.field = original_post.get(field, d.field)
MergeOriginal(d, original_post) ==
  [ d EXCEPT !.title    = Get(original_post, "title", d.title),
             !.content  = Get(original_post, "content", d.content),
             !.keywords = Get(original_post, "keywords", d.keywords),
             !.focus    = Get(original_post, "focus", d.focus) ]

(***************************************************************************)
(* Persistence gateway (services/firestore.py)                             *)
(***************************************************************************)
GetDocument(d, collection, id) == d[collection][id]
\* doc_ref.set(data): full overwrite, creates if absent
SaveDocument(d, collection, id, data) == [d EXCEPT ![collection][id] = data]
\* doc_ref.update(data): merges the given fields; NotFound when the document is absent
CanUpdate(d, collection, id) == d[collection][id] # NoDoc
UpdateDocument(d, collection, id, data) == [d EXCEPT ![collection][id] = data @@ @]

Job(id) == db[JOBS_COLLECTION][id]
Generated(id) == db[FIRESTORE_GENERATED_POSTS_COLLECTION][id]

(***************************************************************************)
(* Text generation gateway (services/ai/*.py): what generate_content gives *)
(***************************************************************************)
WellFormedSection == [subtitle |-> "S1", content |-> "C1"]
\* a JSON object with a "sections" array
JsonWithSections(secs) == [kind |-> "json_object", sections |-> secs]
ProviderTexts ==
  { JsonWithSections(<<WellFormedSection>>),
    JsonWithSections(<< >>),
    JsonWithSections(<<[subtitle |-> "S1"]>>),
    [kind |-> "json_object"],
    [kind |-> "text"] }
\* generate_content raises (API failure, empty or unparsable response)
ProviderRaise == [raise |-> "ProviderError"]
ProviderResults == ProviderTexts \cup {ProviderRaise}

\* generated_content of the error result: ''
EmptyText == [kind |-> "empty"]
\* a field that holds no generated content (None)
NoText == [kind |-> "None"]

\* json.loads(text) gives a dict that has the key 'sections'
HasSections(text) == text.kind = "json_object" /\ "sections" \in DOMAIN text
\* BlogPostSection(**section) validates: subtitle and content are required
SectionsValid(text) ==
  HasSections(text) =>
    \A i \in 1..Len(text.sections) : {"subtitle", "content"} \subseteq DOMAIN text.sections[i]
\* blog_generator.py 96-105 and message_processor.py 169-176: sections, or None
ParseSections(text) ==
  IF HasSections(text)
  THEN Some([i \in 1..Len(text.sections) |->
               [subtitle |-> text.sections[i].subtitle, content |-> text.sections[i].content]])
  ELSE Nil
\* line 185: [section.model_dump() for section in sections] if sections else None
DumpSections(sections) ==
  IF sections # Nil /\ sections[1] # << >> THEN sections ELSE Nil

(***************************************************************************)
(* Generation orchestrator (services/blog_generator.py)                    *)
(***************************************************************************)
\* lines 87-89: the fallback title when the Brief has none
WithTitle(post_id, data) ==
  IF data.title = None \/ data.title = ""
  THEN [data EXCEPT !.title = "Generated content for " \o post_id \o " at " \o Now]
  ELSE data

\* GeneratedPost(...) validates: keywords: List[str], focus: str (not Optional)
GeneratedPostValid(data) == data.keywords # Nil /\ data.focus # None

\* lines 108-118 and 137: generated_post.model_dump(by_alias=True)
GeneratedPost(post_id, data, text) ==
  [ id                 |-> post_id,
    title              |-> data.title,
    originalContent    |-> "",
    keywords           |-> data.keywords,
    focus              |-> data.focus,
    generatedContent   |-> text,
    sections           |-> ParseSections(text),
    generatedAt        |-> Now,
    status             |-> "generated",
    previousGeneration |-> None ]

\* lines 143-151
GeneratedResult(post_id, text) ==
  [ status |-> "generated", generated_content |-> text,
    generated_post_id |-> post_id, error |-> None ]
\* lines 153-166
ErrorResult(error) ==
  [ status |-> "error", generated_content |-> EmptyText,
    generated_post_id |-> "", error |-> error ]
NoResult == [status |-> "none"]

(***************************************************************************)
(* Job records (controllers/message_processor.py)                          *)
(***************************************************************************)
ErrorText(text) == [text |-> text]
\* f'Exceeded maximum retry attempts ({max_retries})'
ExceededText(max_retries) ==
  [text |-> "Exceeded maximum retry attempts", n |-> max_retries]
\* f'Permanently failed after {max_retries} retries. Last error: {str(e)}'
PermanentText(max_retries, e) ==
  [text |-> "Permanently failed after retries. Last error", n |-> max_retries, last |-> e]

\* NewJobRecord relying on the schema default of line 54 (max_retries: int = 100)
NewJobRecordSchemaDefault(m) ==
  [ postId           |-> m.post_id,
    action           |-> m.action,
    timestamp        |-> m.timestamp,
    status           |-> "processing",
    blogPost         |-> m.data,
    processedAt      |-> Now,
    completedAt      |-> None,
    errorAt          |-> None,
    generatedContent |-> NoText,
    sections         |-> Nil,
    error            |-> [text |-> None],
    retry_count      |-> 0,
    max_retries      |-> 100 ]

\* lines 137-146, 150: ProcessedBlogPost(...).model_dump(by_alias=True)
NewJobRecord(m) ==
  [ postId           |-> m.post_id,
    action           |-> m.action,
    timestamp        |-> m.timestamp,
    status           |-> "processing",
    blogPost         |-> m.data,
    processedAt      |-> Now,
    completedAt      |-> None,
    errorAt          |-> None,
    generatedContent |-> NoText,
    sections         |-> Nil,
    error            |-> ErrorText(None),
    retry_count      |-> 0,
    max_retries      |-> DefaultMaxRetries ]

\* line 43: action: Literal['created', 'updated', 'deleted', 'regenerate']
JobRecordValid(m) == m.action \in ActionEnum

\* ExceededPayload counting the refused delivery as one more attempt
ExceededPayloadCountsAttempt(retry_count, max_retries) ==
  [ status |-> "failed_permanently", errorAt |-> Now,
    error |-> [text |-> "Exceeded maximum retry attempts", n |-> max_retries],
    retry_count |-> retry_count + 1 ]

\* lines 117-122
ExceededPayload(retry_count, max_retries) ==
  [ status |-> "failed_permanently", errorAt |-> Now,
    error |-> ExceededText(max_retries), retry_count |-> retry_count ]
\* RetryPayload that leaves the incremented count out of the update
RetryPayloadKeepsCount(retry_count) ==
  [ status |-> "processing", retry_count |-> retry_count - 1, processedAt |-> Now ]

\* lines 130-134
RetryPayload(retry_count) ==
  [ status |-> "processing", retry_count |-> retry_count, processedAt |-> Now ]
\* lines 180-186
CompletedPayload(result) ==
  [ status |-> "completed", completedAt |-> Now,
    generatedPostId |-> result.generated_post_id,
    generatedContent |-> result.generated_content,
    sections |-> DumpSections(ParseSections(result.generated_content)) ]
\* lines 191-195
GenerationErrorPayload(result) ==
  [ status |-> "error", errorAt |-> Now,
    error |-> ErrorText(IF result.error = "" THEN "Unknown error during generation"
                        ELSE result.error) ]
\* FailurePayload that starts the count over when it records an error
FailurePayloadResetsCount(current_retry_count, max_retries, e) ==
  IF current_retry_count >= max_retries
  THEN [ status |-> "failed_permanently", errorAt |-> Now,
         error |-> [text |-> "Permanently failed after retries. Last error",
                    n |-> max_retries, last |-> e],
         retry_count |-> current_retry_count ]
  ELSE [ status |-> "error", errorAt |-> Now, error |-> [text |-> e], retry_count |-> 0 ]

\* FailurePayload with the ceiling test of line 209 off by one (> for >=)
FailurePayloadOffByOne(current_retry_count, max_retries, e) ==
  IF current_retry_count > max_retries
  THEN [ status |-> "failed_permanently", errorAt |-> Now,
         error |-> [text |-> "Permanently failed after retries. Last error",
                    n |-> max_retries, last |-> e],
         retry_count |-> current_retry_count ]
  ELSE [ status |-> "error", errorAt |-> Now, error |-> [text |-> e],
         retry_count |-> current_retry_count ]

\* lines 209-224
FailurePayload(current_retry_count, max_retries, e) ==
  IF current_retry_count >= max_retries
  THEN [ status |-> "failed_permanently", errorAt |-> Now,
         error |-> PermanentText(max_retries, e), retry_count |-> current_retry_count ]
  ELSE [ status |-> "error", errorAt |-> Now,
         error |-> ErrorText(e), retry_count |-> current_retry_count ]
\* Reraise without the ceiling test: every failure is re-raised
ReraiseAlways(current_retry_count, max_retries) == TRUE

\* lines 233-237: re-raise below the ceiling, return the post id at the ceiling
Reraise(current_retry_count, max_retries) == current_retry_count < max_retries

\* pubsub_push swallowing the exception: every push is answered 204
HttpStatusAlwaysNoContent(result) == HTTP_204_NO_CONTENT

\* main.py 36-47: a propagated exception becomes HTTP 500, a return HTTP 204
HttpStatus(result) ==
  IF result = "raised" THEN HTTP_500_INTERNAL_SERVER_ERROR ELSE HTTP_204_NO_CONTENT

(***************************************************************************)
(* State                                                                   *)
(*   db        the Firestore collections: collection -> document id -> doc *)
(*   pc        where each invocation of process_message stands             *)
(*   msg       its validated BlogPostMessage                               *)
(*   loc       its local variables                                         *)
(*   outcome   how its last invocation ended: "returned" or "raised"       *)
(*   hist      per invocation: the job record it found on arrival, the     *)
(*             Brief as it was sent, what it has written and called so     *)
(*             far, the Brief it handed to generate_blog_post              *)
(*   stats     per post id: provider calls made                            *)
(*   delivered number of push deliveries so far                            *)
(***************************************************************************)
\* what an invocation remembers of the job record it was delivered on
Found(doc) ==
  IF Truthy(doc)
  THEN [ exists |-> TRUE, status |-> Get(doc, "status", "processing"),
         retry_count |-> Get(doc, "retry_count", 0),
         max_retries |-> Get(doc, "max_retries", DefaultMaxRetries) ]
  ELSE [ exists |-> FALSE ]

LocInit ==
  [ retry_count |-> 0, max_retries |-> 0, e |-> None,
    result |-> NoResult, post |-> NoDoc, payload |-> NoDoc ]

\* the provider has not been called in this invocation
NotCalled == [called |-> FALSE]

HistInit ==
  [ pre |-> Found(NoDoc), path |-> "none", jobWrites |-> 0, genWrites |-> 0,
    calls |-> 0, given |-> NotCalled, incoming |-> NoDoc, brief |-> NoDoc,
    input |-> NoMsg, reads |-> 0, original |-> "none", unrecorded |-> FALSE ]

StatsInit ==
  [ calls |-> 0 ]

Init ==
  /\ db = [c \in Collections |-> [i \in PostIds |-> NoDoc]]
  /\ pc = [w \in Workers |-> "idle"]
  /\ msg = [w \in Workers |-> NoMsg]
  /\ loc = [w \in Workers |-> LocInit]
  /\ outcome = [w \in Workers |-> "none"]
  /\ hist = [w \in Workers |-> HistInit]
  /\ stats = [i \in PostIds |-> StatsInit]
  /\ delivered = 0

\* the invocation goes on to its next await
Goto(w, target, l) ==
  /\ pc' = [pc EXCEPT ![w] = target]
  /\ loc' = [loc EXCEPT ![w] = l]
  /\ UNCHANGED outcome

\* the invocation ends: process_message returns or raises into pubsub_push
End(w, result) ==
  /\ pc' = [pc EXCEPT ![w] = "done"]
  /\ UNCHANGED loc
  /\ outcome' = [outcome EXCEPT ![w] = result]

\* the exception a failed store call raises
StoreError(ok) == IF ok THEN "NotFound" ELSE "PersistenceError"

(***************************************************************************)
(* process_message, lines 68-97: decode, validate, regeneration lookup     *)
(***************************************************************************)
\* Deliver whose except block of lines 94-97 logs and returns instead of raising
DeliverSwallowsInvalid(w, input, alone) ==
  /\ pc[w] = "idle"
  /\ delivered < MaxDeliveries
  /\ alone => \A v \in Workers : pc[v] = "idle"
  /\ delivered' = delivered + 1
  /\ UNCHANGED db
  /\ IF CanDecode(input) /\ ValidPayload(Payload(input))
     THEN LET m == BlogPostMessage(Payload(input)) IN
          /\ msg' = [msg EXCEPT ![w] = m]
          /\ hist' = [hist EXCEPT ![w] = [HistInit EXCEPT !.pre = Found(Job(m.post_id)),
                                                         !.incoming = Payload(input).data,
                                                         !.input = input]]
          /\ UNCHANGED stats
          /\ Goto(w, IF m.action = "regenerate" THEN "get_original" ELSE "get_existing",
                  LocInit)
     ELSE /\ msg' = [msg EXCEPT ![w] = NoMsg]
          /\ hist' = [hist EXCEPT ![w] = [HistInit EXCEPT !.input = input]]
          /\ UNCHANGED stats
          /\ End(w, "returned")

Deliver(w, input, alone) ==
  /\ pc[w] = "idle"
  /\ delivered < MaxDeliveries
  /\ alone => \A v \in Workers : pc[v] = "idle"
  /\ delivered' = delivered + 1
  /\ UNCHANGED db
  /\ IF CanDecode(input) /\ ValidPayload(Payload(input))
     THEN LET m == BlogPostMessage(Payload(input)) IN
          /\ msg' = [msg EXCEPT ![w] = m]
          /\ hist' = [hist EXCEPT ![w] = [HistInit EXCEPT !.pre = Found(Job(m.post_id)),
                                                         !.incoming = Payload(input).data,
                                                         !.input = input]]
          /\ UNCHANGED stats
          /\ Goto(w, IF m.action = "regenerate" THEN "get_original" ELSE "get_existing",
                  LocInit)
     ELSE /\ msg' = [msg EXCEPT ![w] = NoMsg]
          /\ hist' = [hist EXCEPT ![w] = [HistInit EXCEPT !.input = input]]
          /\ UNCHANGED stats
          /\ End(w, "raised")

\* GetOriginal without the else branch of lines 90-92: a missing original is let through
GetOriginalTolerant(w, ok) ==
  /\ pc[w] = "get_original"
  /\ UNCHANGED <<db, delivered>>
  /\ LET id == msg[w].post_id
         original_post == GetDocument(db, FIRESTORE_POSTS_COLLECTION, id)
     IN /\ hist' = [hist EXCEPT ![w].reads = @ + 1,
                                 ![w].original = IF ~ok THEN "failed"
                                                 ELSE IF Truthy(original_post)
                                                 THEN "found" ELSE "missing"]
        /\ IF ok
           THEN /\ msg' = [msg EXCEPT ![w].data = IF Truthy(original_post)
                                                  THEN MergeOriginal(@, original_post) ELSE @]
                /\ Goto(w, "get_existing", loc[w])
                /\ UNCHANGED stats
           ELSE /\ UNCHANGED msg
                /\ End(w, "raised")
                /\ UNCHANGED stats

\* lines 81-92: get_document(settings.FIRESTORE_POSTS_COLLECTION, post_id) and the merge
GetOriginal(w, ok) ==
  /\ pc[w] = "get_original"
  /\ UNCHANGED <<db, delivered>>
  /\ LET id == msg[w].post_id
         original_post == GetDocument(db, FIRESTORE_POSTS_COLLECTION, id)
     IN /\ hist' = [hist EXCEPT ![w].reads = @ + 1,
                                 ![w].original = IF ~ok THEN "failed"
                                                 ELSE IF Truthy(original_post)
                                                 THEN "found" ELSE "missing"]
        /\ IF ok /\ Truthy(original_post)
           THEN /\ msg' = [msg EXCEPT ![w].data = MergeOriginal(@, original_post)]
                /\ Goto(w, "get_existing", loc[w])
                /\ UNCHANGED stats
           ELSE /\ UNCHANGED msg
                /\ End(w, "raised")
                /\ UNCHANGED stats

(***************************************************************************)
(* lines 99-155: the job state step                                        *)
(***************************************************************************)
\* JobPath without the failed_permanently test of lines 109-112
JobPathNoTerminal(existing_record, m) ==
  IF Truthy(existing_record)
  THEN IF Get(existing_record, "retry_count", 0)
            >= Get(existing_record, "max_retries", DefaultMaxRetries)
       THEN "exceeded"
       ELSE "retry"
  ELSE IF JobRecordValid(m) THEN "create" ELSE "invalid"

\* JobPath with the ceiling test of line 115 off by one (> for >=)
JobPathOffByOne(existing_record, m) ==
  IF Truthy(existing_record)
  THEN IF Get(existing_record, "status", "processing") = "failed_permanently"
       THEN "terminal"
       ELSE IF Get(existing_record, "retry_count", 0)
                 > Get(existing_record, "max_retries", DefaultMaxRetries)
       THEN "exceeded"
       ELSE "retry"
  ELSE IF JobRecordValid(m) THEN "create" ELSE "invalid"

\* JobPath that also returns early on a completed record
JobPathCompletedIsTerminal(existing_record, m) ==
  IF Truthy(existing_record)
  THEN IF Get(existing_record, "status", "processing") \in {"failed_permanently", "completed"}
       THEN "terminal"
       ELSE IF Get(existing_record, "retry_count", 0)
                 >= Get(existing_record, "max_retries", DefaultMaxRetries)
       THEN "exceeded"
       ELSE "retry"
  ELSE IF JobRecordValid(m) THEN "create" ELSE "invalid"

\* lines 102-115 and 135-146: which of the four paths the invocation takes
JobPath(existing_record, m) ==
  IF Truthy(existing_record)
  THEN IF Get(existing_record, "status", "processing") = "failed_permanently"
       THEN "terminal"
       ELSE IF Get(existing_record, "retry_count", 0)
                 >= Get(existing_record, "max_retries", DefaultMaxRetries)
       THEN "exceeded"
       ELSE "retry"
  ELSE IF JobRecordValid(m) THEN "create" ELSE "invalid"

GetExisting(w, ok) ==
  /\ pc[w] = "get_existing"
  /\ UNCHANGED <<db, msg, stats, delivered>>
  /\ LET id == msg[w].post_id
         existing_record == GetDocument(db, JOBS_COLLECTION, id)
         retry_count == Get(existing_record, "retry_count", 0)
         max_retries == Get(existing_record, "max_retries", DefaultMaxRetries)
         path == JobPath(existing_record, msg[w])
     IN IF ~ok \/ path = "invalid"
        THEN /\ End(w, "raised")
             /\ hist' = [hist EXCEPT ![w].reads = @ + 1]
        ELSE /\ hist' = [hist EXCEPT ![w].path = path, ![w].reads = @ + 1]
             /\ CASE path = "terminal" -> End(w, "returned")
                  [] path = "exceeded" ->
                       Goto(w, "mark_exceeded",
                            [loc[w] EXCEPT !.retry_count = retry_count,
                                           !.max_retries = max_retries])
                  [] path = "retry" ->
                       Goto(w, "update_retry",
                            [loc[w] EXCEPT !.retry_count = retry_count + 1,
                                           !.max_retries = max_retries])
                  [] path = "create" -> Goto(w, "save_initial", loc[w])

\* lines 117-123
MarkExceeded(w, ok) ==
  /\ pc[w] = "mark_exceeded"
  /\ UNCHANGED <<msg, delivered>>
  /\ LET id == msg[w].post_id IN
     IF ok /\ CanUpdate(db, JOBS_COLLECTION, id)
     THEN /\ db' = UpdateDocument(db, JOBS_COLLECTION, id,
                                  ExceededPayload(loc[w].retry_count, loc[w].max_retries))
          /\ hist' = [hist EXCEPT ![w].jobWrites = @ + 1]
          /\ End(w, "returned")
             /\ UNCHANGED stats
     ELSE /\ UNCHANGED <<db, hist>>
          /\ End(w, "raised")
             /\ UNCHANGED stats

\* lines 130-134
\* UpdateRetry with a failed update swallowed: the invocation goes on to generate
UpdateRetrySwallows(w, ok) ==
  /\ pc[w] = "update_retry"
  /\ UNCHANGED <<msg, delivered, stats>>
  /\ LET id == msg[w].post_id IN
     IF ok /\ CanUpdate(db, JOBS_COLLECTION, id)
     THEN /\ db' = UpdateDocument(db, JOBS_COLLECTION, id, RetryPayload(loc[w].retry_count))
          /\ hist' = [hist EXCEPT ![w].jobWrites = @ + 1]
          /\ Goto(w, "call_provider", loc[w])
     ELSE /\ UNCHANGED <<db, hist>>
          /\ Goto(w, "call_provider", loc[w])

UpdateRetry(w, ok) ==
  /\ pc[w] = "update_retry"
  /\ UNCHANGED <<msg, delivered>>
  /\ LET id == msg[w].post_id IN
     IF ok /\ CanUpdate(db, JOBS_COLLECTION, id)
     THEN /\ db' = UpdateDocument(db, JOBS_COLLECTION, id, RetryPayload(loc[w].retry_count))
          /\ hist' = [hist EXCEPT ![w].jobWrites = @ + 1]
          /\ Goto(w, "call_provider", loc[w])
          /\ UNCHANGED stats
     ELSE /\ UNCHANGED <<db, hist>>
          /\ End(w, "raised")
             /\ UNCHANGED stats

\* lines 148-155
\* SaveInitial with a failed save swallowed: the invocation goes on to generate
SaveInitialSwallows(w, ok) ==
  /\ pc[w] = "save_initial"
  /\ UNCHANGED <<msg, delivered, stats>>
  /\ LET id == msg[w].post_id IN
     IF ok
     THEN /\ db' = SaveDocument(db, JOBS_COLLECTION, id, NewJobRecord(msg[w]))
          /\ hist' = [hist EXCEPT ![w].jobWrites = @ + 1]
          /\ Goto(w, "call_provider", loc[w])
     ELSE /\ UNCHANGED <<db, hist>>
          /\ Goto(w, "call_provider", loc[w])

SaveInitial(w, ok) ==
  /\ pc[w] = "save_initial"
  /\ UNCHANGED <<msg, delivered>>
  /\ LET id == msg[w].post_id IN
     IF ok
     THEN /\ db' = SaveDocument(db, JOBS_COLLECTION, id, NewJobRecord(msg[w]))
          /\ hist' = [hist EXCEPT ![w].jobWrites = @ + 1]
          /\ Goto(w, "call_provider", loc[w])
          /\ UNCHANGED stats
     ELSE /\ UNCHANGED <<db, hist>>
          /\ End(w, "raised")
             /\ UNCHANGED stats

(***************************************************************************)
(* lines 157-165 and generate_blog_post, lines 83-131: the provider call   *)
(***************************************************************************)
CallProvider(w, given) ==
  /\ pc[w] = "call_provider"
  /\ UNCHANGED <<db, msg, outcome, delivered>>
  /\ LET id == msg[w].post_id
         data == WithTitle(id, msg[w].data)
         failure == IF given = ProviderRaise THEN given.raise
                    ELSE IF ~SectionsValid(given) \/ ~GeneratedPostValid(data)
                    THEN "ValidationError"
                    ELSE None
     IN /\ hist' = [hist EXCEPT ![w].calls = @ + 1, ![w].given = given,
                                 ![w].brief = msg[w].data]
        /\ stats' = [stats EXCEPT ![id].calls = @ + 1]
        /\ pc' = [pc EXCEPT ![w] = IF failure = None THEN "save_generated"
                                   ELSE "update_error"]
        /\ loc' = [loc EXCEPT ![w].result = IF failure = None THEN NoResult
                                             ELSE ErrorResult(failure),
                              ![w].post = IF failure = None
                                          THEN GeneratedPost(id, data, given)
                                          ELSE NoDoc]

\* SaveGenerated without the except block of lines 153-166: a failed save_document
\* escapes generate_blog_post
SaveGeneratedRaises(w, ok) ==
  /\ pc[w] = "save_generated"
  /\ UNCHANGED <<msg, stats, delivered>>
  /\ LET id == msg[w].post_id IN
     IF ok
     THEN /\ db' = SaveDocument(db, FIRESTORE_GENERATED_POSTS_COLLECTION, id, loc[w].post)
          /\ hist' = [hist EXCEPT ![w].genWrites = @ + 1]
          /\ Goto(w, "update_completed",
                  [loc[w] EXCEPT !.result = GeneratedResult(id, loc[w].post.generatedContent),
                                 !.post = NoDoc])
     ELSE /\ UNCHANGED <<db, hist>>
          /\ Goto(w, "failure_get", [loc[w] EXCEPT !.e = StoreError(ok), !.post = NoDoc])

\* SaveGenerated with a failed save ignored: the result is reported as generated
SaveGeneratedIgnoresFailure(w, ok) ==
  /\ pc[w] = "save_generated"
  /\ UNCHANGED <<msg, stats, delivered>>
  /\ LET id == msg[w].post_id IN
     IF ok
     THEN /\ db' = SaveDocument(db, FIRESTORE_GENERATED_POSTS_COLLECTION, id, loc[w].post)
          /\ hist' = [hist EXCEPT ![w].genWrites = @ + 1]
          /\ Goto(w, "update_completed",
                  [loc[w] EXCEPT !.result = GeneratedResult(id, loc[w].post.generatedContent),
                                 !.post = NoDoc])
     ELSE /\ UNCHANGED <<db, hist>>
          /\ Goto(w, "update_completed",
                  [loc[w] EXCEPT !.result = GeneratedResult(id, loc[w].post.generatedContent),
                                 !.post = NoDoc])

\* generate_blog_post, lines 134-166: save_document of the GeneratedPost
SaveGenerated(w, ok) ==
  /\ pc[w] = "save_generated"
  /\ UNCHANGED <<msg, stats, delivered>>
  /\ LET id == msg[w].post_id IN
     IF ok
     THEN /\ db' = SaveDocument(db, FIRESTORE_GENERATED_POSTS_COLLECTION, id, loc[w].post)
          /\ hist' = [hist EXCEPT ![w].genWrites = @ + 1]
          /\ Goto(w, "update_completed",
                  [loc[w] EXCEPT !.result = GeneratedResult(id, loc[w].post.generatedContent),
                                 !.post = NoDoc])
     ELSE /\ UNCHANGED <<db, hist>>
          /\ Goto(w, "update_error",
                  [loc[w] EXCEPT !.result = ErrorResult(StoreError(ok)), !.post = NoDoc])

(***************************************************************************)
(* lines 178-198: recording the generation result                          *)
(***************************************************************************)
UpdateCompleted(w, ok) ==
  /\ pc[w] = "update_completed"
  /\ UNCHANGED <<msg, delivered>>
  /\ LET id == msg[w].post_id IN
     IF ok /\ CanUpdate(db, JOBS_COLLECTION, id)
     THEN /\ db' = UpdateDocument(db, JOBS_COLLECTION, id, CompletedPayload(loc[w].result))
          /\ hist' = [hist EXCEPT ![w].jobWrites = @ + 1]
          /\ End(w, "returned")
             /\ UNCHANGED stats
     ELSE /\ UNCHANGED <<db, hist, stats>>
          /\ Goto(w, "failure_get", [loc[w] EXCEPT !.e = StoreError(ok)])

UpdateError(w, ok) ==
  /\ pc[w] = "update_error"
  /\ UNCHANGED <<msg, stats, delivered>>
  /\ LET id == msg[w].post_id
         payload == GenerationErrorPayload(loc[w].result)
     IN IF ok /\ CanUpdate(db, JOBS_COLLECTION, id)
        THEN /\ db' = UpdateDocument(db, JOBS_COLLECTION, id, payload)
             /\ hist' = [hist EXCEPT ![w].jobWrites = @ + 1]
             /\ Goto(w, "failure_get", [loc[w] EXCEPT !.e = payload.error.text])
        ELSE /\ UNCHANGED <<db, hist>>
             /\ Goto(w, "failure_get", [loc[w] EXCEPT !.e = StoreError(ok)])

(***************************************************************************)
(* lines 200-237: the failure path                                         *)
(***************************************************************************)
FailureGet(w, ok) ==
  /\ pc[w] = "failure_get"
  /\ UNCHANGED <<db, msg, delivered>>
  /\ hist' = [hist EXCEPT ![w].reads = @ + 1]
  /\ LET id == msg[w].post_id
         current_record == GetDocument(db, JOBS_COLLECTION, id)
         current_retry_count == IF Truthy(current_record)
                                THEN Get(current_record, "retry_count", 0) ELSE 0
         max_retries == IF Truthy(current_record)
                        THEN Get(current_record, "max_retries", DefaultMaxRetries)
                        ELSE DefaultMaxRetries
     IN IF ok
        THEN /\ Goto(w, "failure_update",
                     [loc[w] EXCEPT !.retry_count = current_retry_count,
                                    !.max_retries = max_retries,
                                    !.payload = FailurePayload(current_retry_count,
                                                               max_retries, loc[w].e)])
             /\ UNCHANGED stats
        ELSE /\ End(w, "raised")
             /\ UNCHANGED stats

FailureUpdate(w, ok) ==
  /\ pc[w] = "failure_update"
  /\ UNCHANGED <<msg, delivered>>
  /\ LET id == msg[w].post_id
         result == IF Reraise(loc[w].retry_count, loc[w].max_retries)
                   THEN "raised" ELSE "returned"
     IN /\ IF ok /\ CanUpdate(db, JOBS_COLLECTION, id)
           THEN /\ db' = UpdateDocument(db, JOBS_COLLECTION, id, loc[w].payload)
                /\ hist' = [hist EXCEPT ![w].jobWrites = @ + 1]
           ELSE /\ UNCHANGED db
                /\ hist' = [hist EXCEPT ![w].unrecorded = TRUE]
        /\ End(w, result)
             /\ UNCHANGED stats

(***************************************************************************)
(* main.py, lines 36-47: pubsub_push answers the push request              *)
(***************************************************************************)
Respond(w) ==
  /\ pc[w] = "done"
  /\ pc' = [pc EXCEPT ![w] = "idle"]
  /\ msg' = [msg EXCEPT ![w] = NoMsg]
  /\ outcome' = [outcome EXCEPT ![w] = "none"]
  /\ hist' = [hist EXCEPT ![w] = HistInit]
  /\ loc' = [loc EXCEPT ![w] = LocInit]
  /\ UNCHANGED <<db, stats, delivered>>

(***************************************************************************)
(* Specifications                                                          *)
(***************************************************************************)
\* the store answers every call
\* main.py lines 39-45 answer HTTP 500 for an invocation that raised, and the
\* upstream delivers the same message again: process_message lines 68-97
Redeliver(w) ==
  /\ pc[w] = "done"
  /\ outcome[w] = "raised"
  /\ delivered < MaxDeliveries
  /\ delivered' = delivered + 1
  /\ UNCHANGED <<db, stats>>
  /\ LET input == hist[w].input IN
     IF CanDecode(input) /\ ValidPayload(Payload(input))
     THEN LET m == BlogPostMessage(Payload(input)) IN
          /\ msg' = [msg EXCEPT ![w] = m]
          /\ hist' = [hist EXCEPT ![w] = [HistInit EXCEPT !.pre = Found(Job(m.post_id)),
                                                         !.incoming = Payload(input).data,
                                                         !.input = input]]
          /\ pc' = [pc EXCEPT ![w] =
                      IF m.action = "regenerate" THEN "get_original" ELSE "get_existing"]
          /\ loc' = [loc EXCEPT ![w] = LocInit]
          /\ outcome' = [outcome EXCEPT ![w] = "none"]
     ELSE /\ msg' = [msg EXCEPT ![w] = NoMsg]
          /\ hist' = [hist EXCEPT ![w] = [HistInit EXCEPT !.input = input]]
          /\ pc' = [pc EXCEPT ![w] = "done"]
          /\ outcome' = [outcome EXCEPT ![w] = "raised"]
          /\ UNCHANGED loc

Reliable == {TRUE}
\* the store may fail any call
Unreliable == {TRUE, FALSE}

Step(w, inputs, alone, answers, results) ==
  \/ \E input \in inputs : Deliver(w, input, alone)
  \/ \E ok \in answers : GetOriginal(w, ok)
  \/ \E ok \in answers : GetExisting(w, ok)
  \/ \E ok \in answers : MarkExceeded(w, ok)
  \/ \E ok \in answers : UpdateRetry(w, ok)
  \/ \E ok \in answers : SaveInitial(w, ok)
  \/ \E given \in results : CallProvider(w, given)
  \/ \E ok \in answers : SaveGenerated(w, ok)
  \/ \E ok \in answers : UpdateCompleted(w, ok)
  \/ \E ok \in answers : UpdateError(w, ok)
  \/ \E ok \in answers : FailureGet(w, ok)
  \/ \E ok \in answers : FailureUpdate(w, ok)
  \/ Respond(w)

\* non-overlapping invocations, any input, a store that answers
NextSeq == Step("w1", Inputs, TRUE, Reliable, ProviderResults)
SeqSpec == Init /\ [][NextSeq]_vars

\* concurrent invocations (duplicate deliveries overlap), a store that answers
\* (the duplicates of one created message and of one regenerate message, one
\* malformed push; the provider raises or returns a well-formed article)
DuplicateInputs ==
  { Envelope(WirePayload("p1", "created", FullBrief("p1"))),
    Envelope(WirePayload("p1", "regenerate", FeedbackOnlyBrief("p1"))),
    Envelope([postId |-> "p1", action |-> "created", timestamp |-> JInt(Ts)]) }
DuplicateResults == {ProviderRaise, JsonWithSections(<<WellFormedSection>>)}
Next == \E w \in Workers : Step(w, DuplicateInputs, FALSE, Reliable, DuplicateResults)
Spec == Init /\ [][Next]_vars

\* the redelivery scenario: one valid created/updated/deleted message at a time,
\* a provider that raises on every call, a store that answers
PlainInputs ==
  { Envelope(WirePayload("p1", "created", FullBrief("p1"))),
    Envelope(WirePayload("p1", "created", NullKeywordsBrief("p1"))),
    Envelope(WirePayload("p1", "updated", FullBrief("p1"))),
    Envelope(WirePayload("p1", "deleted", FullBrief("p1"))) }
NextFailing ==
  \/ \E input \in PlainInputs : Deliver("w1", input, TRUE)
  \/ GetExisting("w1", TRUE)
  \/ UpdateRetry("w1", TRUE)
  \/ SaveInitial("w1", TRUE)
  \/ CallProvider("w1", ProviderRaise)
  \/ UpdateError("w1", TRUE)
  \/ FailureGet("w1", TRUE)
  \/ FailureUpdate("w1", TRUE)
  \/ Respond("w1")
FailingSpec == Init /\ [][NextFailing]_vars

\* overlapping deliveries of one created message with a provider that always fails
StepFailing(w) ==
  \/ Deliver(w, Envelope(WirePayload("p1", "created", FullBrief("p1"))), FALSE)
  \/ GetExisting(w, TRUE)
  \/ MarkExceeded(w, TRUE)
  \/ UpdateRetry(w, TRUE)
  \/ SaveInitial(w, TRUE)
  \/ CallProvider(w, ProviderRaise)
  \/ UpdateError(w, TRUE)
  \/ FailureGet(w, TRUE)
  \/ FailureUpdate(w, TRUE)
  \/ Respond(w)
NextFailingConcurrent == \E w \in Workers : StepFailing(w)
FailingConcurrentSpec == Init /\ [][NextFailingConcurrent]_vars

\* non-overlapping invocations with a store that may fail any call
NextFaulty == Step("w1", DuplicateInputs, TRUE, Unreliable, DuplicateResults)
FaultySpec == Init /\ [][NextFaulty]_vars

\* non-overlapping invocations where only the write of the GeneratedPost may fail
NextGenerationFault ==
  \/ \E input \in DuplicateInputs : Deliver("w1", input, TRUE)
  \/ GetOriginal("w1", TRUE)
  \/ GetExisting("w1", TRUE)
  \/ MarkExceeded("w1", TRUE)
  \/ UpdateRetry("w1", TRUE)
  \/ SaveInitial("w1", TRUE)
  \/ \E given \in ProviderResults : CallProvider("w1", given)
  \/ \E ok \in Unreliable : SaveGenerated("w1", ok)
  \/ UpdateCompleted("w1", TRUE)
  \/ UpdateError("w1", TRUE)
  \/ FailureGet("w1", TRUE)
  \/ FailureUpdate("w1", TRUE)
  \/ Respond("w1")
GenerationFaultSpec == Init /\ [][NextGenerationFault]_vars

\* the regeneration scenario: the source-posts store already holds the post
\* (written by the publisher of the message), or holds nothing
\* lines 85-88: the keys of the original post that the merge reads
OriginalPosts ==
  { [title |-> "T", content |-> "C"],
    [title |-> "T", content |-> "C", keywords |-> Some(<<"k">>), focus |-> "of"] }
InitStored ==
  /\ \E original_post \in OriginalPosts \cup {NoDoc} :
        db = [c \in Collections |->
                [i \in PostIds |-> IF c = FIRESTORE_POSTS_COLLECTION THEN original_post
                                   ELSE NoDoc]]
  /\ pc = [w \in Workers |-> "idle"]
  /\ msg = [w \in Workers |-> NoMsg]
  /\ loc = [w \in Workers |-> LocInit]
  /\ outcome = [w \in Workers |-> "none"]
  /\ hist = [w \in Workers |-> HistInit]
  /\ stats = [i \in PostIds |-> StatsInit]
  /\ delivered = 0
\* a regenerate message that carries its own title, content, keywords and focus
RevisedBrief(id) ==
  [id |-> id, title |-> "New", content |-> "NC", keywords |-> Some(<<"n">>),
   focus |-> "nf", feedback |-> "fb"]
RegenInputs ==
  { Envelope(WirePayload("p1", "regenerate", FeedbackOnlyBrief("p1"))),
    Envelope(WirePayload("p1", "regenerate", RevisedBrief("p1"))),
    Envelope(WirePayload("p1", "regenerate", [id |-> "p1", title |-> "New", feedback |-> "fb"])),
    Envelope(WirePayload("p1", "created", FullBrief("p1"))) }
NextRegen == Step("w1", RegenInputs, TRUE, Reliable, ProviderResults)
RegenSpec == InitStored /\ [][NextRegen]_vars

\* the redelivery scenario: one valid message is delivered and, after every
\* invocation that raised, delivered again; an invocation that returned gets
\* HTTP 204 and ends the deliveries. The store answers and holds nothing, an
\* original post, or a JobRecord left completed at the ceiling.
\* lines 179-188: a JobRecord completed by the attempt that reached the ceiling
CompletedAtCeiling ==
  [ status |-> "completed", retry_count |-> DefaultMaxRetries,
    max_retries |-> DefaultMaxRetries ]
InitRedelivery ==
  /\ \E stored \in OriginalPosts \cup {NoDoc, CompletedAtCeiling} :
        db = [c \in Collections |->
                [i \in PostIds |->
                   IF c = JOBS_COLLECTION THEN stored
                   ELSE IF stored = CompletedAtCeiling
                   THEN GeneratedPost(i, BlogPostData(FullBrief(i)),
                                      JsonWithSections(<<WellFormedSection>>))
                   ELSE NoDoc]]
  /\ pc = [w \in Workers |-> "idle"]
  /\ msg = [w \in Workers |-> NoMsg]
  /\ loc = [w \in Workers |-> LocInit]
  /\ outcome = [w \in Workers |-> "none"]
  /\ hist = [w \in Workers |-> HistInit]
  /\ stats = [i \in PostIds |-> StatsInit]
  /\ delivered = 0
RedeliveryInputs ==
  PlainInputs \cup { Envelope(WirePayload("p1", "regenerate", FeedbackOnlyBrief("p1"))) }
NextRedelivery ==
  \/ \E input \in RedeliveryInputs : Deliver("w1", input, TRUE)
  \/ Redeliver("w1")
  \/ GetOriginal("w1", TRUE)
  \/ GetExisting("w1", TRUE)
  \/ MarkExceeded("w1", TRUE)
  \/ UpdateRetry("w1", TRUE)
  \/ SaveInitial("w1", TRUE)
  \/ \E given \in ProviderResults : CallProvider("w1", given)
  \/ SaveGenerated("w1", TRUE)
  \/ UpdateCompleted("w1", TRUE)
  \/ UpdateError("w1", TRUE)
  \/ FailureGet("w1", TRUE)
  \/ FailureUpdate("w1", TRUE)
RedeliverySpec == InitRedelivery /\ [][NextRedelivery]_vars

(***************************************************************************)
(* Properties                                                              *)
(***************************************************************************)
\* the invocation of worker w has passed validation and has not been answered yet
Accepted(w) == pc[w] # "idle" /\ msg[w] # NoMsg
\* process_message has returned or raised
Finished(w) == pc[w] = "done" /\ msg[w] # NoMsg
JobOf(w) == Job(msg[w].post_id)
GeneratedOf(w) == Generated(msg[w].post_id)
\* no invocation is in flight
Quiescent == \A w \in Workers : pc[w] \in {"idle", "done"}
\* the JobRecord of the post id stands at its retry ceiling
AtCeiling(id) ==
  Truthy(Job(id)) /\ Get(Job(id), "retry_count", 0) = Get(Job(id), "max_retries", DefaultMaxRetries)
\* generate_blog_post has been called in this invocation
Generating(w) == Accepted(w) /\ hist[w].calls > 0
\* the original post of the regeneration lookup
OriginalOf(w) == GetDocument(db, FIRESTORE_POSTS_COLLECTION, msg[w].post_id)
MergedFields == {"title", "content", "keywords", "focus"}
\* generate_blog_post was called and has returned without saving a GeneratedPost
GenerationFailed(w) ==
  Accepted(w) /\ hist[w].calls = 1 /\ hist[w].genWrites = 0 /\ pc[w] # "save_generated"
\* the invocation arrived on a JobRecord with status completed
ArrivedOnCompleted(w) ==
  hist[w].pre.exists /\ hist[w].pre.status = "completed"
\* the job record the invocation arrived on was there and not failed_permanently
ArrivedOnLive(w) ==
  hist[w].pre.exists /\ hist[w].pre.status # "failed_permanently"

\* C1: an invocation that arrives on a JobRecord with status failed_permanently
\* returns success, leaves retry_count and status as they were, writes neither the
\* JobRecord nor a GeneratedPostRecord and never calls the provider.
C1_FailedPermanentlyIsNoOp ==
  \A w \in Workers :
    (Accepted(w) /\ hist[w].pre.exists /\ hist[w].pre.status = "failed_permanently") =>
      /\ hist[w].jobWrites = 0
      /\ hist[w].genWrites = 0
      /\ hist[w].calls = 0
      /\ Found(JobOf(w)) = hist[w].pre
      /\ pc[w] = "done" => outcome[w] = "returned"

C1_Witness ==
  \E w \in Workers :
    /\ Finished(w)
    /\ hist[w].pre.exists /\ hist[w].pre.status = "failed_permanently"
    /\ hist[w].path = "terminal"
    /\ outcome[w] = "returned"

\* C2: under any interleaving of invocations the persisted retry_count of a
\* JobRecord lies between 0 and its max_retries.
C2_RetryCountBounded ==
  \A id \in PostIds :
    Truthy(Job(id)) =>
      /\ 0 <= Job(id).retry_count
      /\ Job(id).retry_count <= Job(id).max_retries

C2_Witness ==
  \E id \in PostIds :
    /\ Truthy(Job(id))
    /\ Job(id).retry_count = Job(id).max_retries
    /\ Job(id).status \in {"processing", "error", "completed"}
    /\ \A w \in Workers : pc[w] \notin {"idle", "done"}

\* C3 as claimed: with a provider that raises on every call, the third invocation
\* ends with the JobRecord failed_permanently at retry_count 3 and returns
\* success, and the provider is never called a fourth time.
C3_ThirdFailureIsPermanent ==
  /\ \A w \in Workers :
       (Finished(w) /\ delivered = 3) =>
         /\ JobOf(w).status = "failed_permanently"
         /\ JobOf(w).retry_count = 3
         /\ outcome[w] = "returned"
  /\ \A id \in PostIds : stats[id].calls <= 3

\* C3 as amended: the first invocation creates the record at retry_count 0, so
\* it is the fourth invocation (the third retry) whose failure leaves the
\* JobRecord failed_permanently at retry_count 3 and that returns success; the
\* first three each end in status error and raise; the provider is never
\* called a fifth time.
C3_FourthFailureIsPermanent ==
  /\ \A w \in Workers :
       /\ (Finished(w) /\ delivered <= DefaultMaxRetries) =>
            /\ JobOf(w).status = "error"
            /\ JobOf(w).retry_count = delivered - 1
            /\ outcome[w] = "raised"
       /\ (Finished(w) /\ delivered = DefaultMaxRetries + 1) =>
            /\ JobOf(w).status = "failed_permanently"
            /\ JobOf(w).retry_count = DefaultMaxRetries
            /\ outcome[w] = "returned"
       /\ (Finished(w) /\ delivered > DefaultMaxRetries + 1) =>
            /\ hist[w].calls = 0
            /\ outcome[w] = "returned"
  /\ \A id \in PostIds : stats[id].calls <= DefaultMaxRetries + 1

C3_Witness ==
  \E w \in Workers :
    /\ Finished(w)
    /\ delivered = DefaultMaxRetries + 2
    /\ stats[msg[w].post_id].calls = DefaultMaxRetries + 1
    /\ JobOf(w).status = "failed_permanently"
    /\ JobOf(w).retry_count = DefaultMaxRetries

\* C4: an invocation that arrives on a live JobRecord with retry_count =
\* max_retries - 1 and whose provider call raises has called the provider once,
\* leaves retry_count = max_retries and status failed_permanently with the
\* 'Permanently failed after N retries. Last error: ...' text, and returns, so
\* that the endpoint answers 204.
C4_LastRetryFailureIsAbsorbed ==
  \A w \in Workers :
    ( /\ Finished(w)
      /\ ArrivedOnLive(w)
      /\ hist[w].pre.retry_count = hist[w].pre.max_retries - 1
      /\ hist[w].given \notin ProviderTexts ) =>
      /\ hist[w].calls = 1
      /\ hist[w].given = ProviderRaise
      /\ JobOf(w).retry_count = hist[w].pre.max_retries
      /\ JobOf(w).status = "failed_permanently"
      /\ JobOf(w).errorAt = Now
      /\ JobOf(w).error = PermanentText(hist[w].pre.max_retries, ProviderRaise.raise)
      /\ outcome[w] = "returned"
      /\ HttpStatus(outcome[w]) = HTTP_204_NO_CONTENT

C4_Witness ==
  \E w \in Workers :
    /\ Finished(w)
    /\ ArrivedOnLive(w)
    /\ hist[w].pre.retry_count = hist[w].pre.max_retries - 1
    /\ hist[w].given = ProviderRaise
    /\ JobOf(w).status = "failed_permanently"
    /\ outcome[w] = "returned"

\* C5: an invocation whose generation failed and that re-read a retry_count
\* below max_retries ends with status error, errorAt set, error = the failure
\* message and the retry_count its job step had persisted, and raises, so that
\* the endpoint answers 500.
C5_FailureBelowCeilingPropagates ==
  \A w \in Workers :
    ( /\ Finished(w)
      /\ loc[w].result.status = "error"
      /\ loc[w].retry_count < loc[w].max_retries ) =>
      /\ JobOf(w).status = "error"
      /\ JobOf(w).errorAt = Now
      /\ JobOf(w).error = ErrorText(loc[w].result.error)
      /\ JobOf(w).retry_count = loc[w].retry_count
      /\ JobOf(w).retry_count =
           IF hist[w].pre.exists THEN hist[w].pre.retry_count + 1 ELSE 0
      /\ outcome[w] = "raised"
      /\ HttpStatus(outcome[w]) = HTTP_500_INTERNAL_SERVER_ERROR

C5_Witness ==
  \E w \in Workers :
    /\ Finished(w)
    /\ loc[w].result.status = "error"
    /\ loc[w].retry_count < loc[w].max_retries
    /\ JobOf(w).status = "error"
    /\ outcome[w] = "raised"

\* C6 as claimed: every valid message (any action of the enum, regenerate
\* included) that arrives where no JobRecord exists has its JobRecord created
\* with status processing, retry_count 0 and max_retries 3 before generation is
\* attempted.
C6_AnyActionCreatesRecord ==
  \A w \in Workers :
    (Accepted(w) /\ msg[w].action \in ActionEnum /\ ~hist[w].pre.exists) =>
      /\ pc[w] = "call_provider" =>
           /\ JobOf(w) = NewJobRecord(msg[w])
           /\ JobOf(w).status = "processing"
           /\ JobOf(w).retry_count = 0
           /\ JobOf(w).max_retries = 3
      /\ pc[w] = "done" => (hist[w].path = "create" /\ Truthy(JobOf(w)))
      /\ hist[w].calls > 0 => hist[w].path = "create"

\* C6 as amended: the same for the actions created, updated and deleted (the
\* regenerate lookup of lines 81-92 runs before the job step).
C6_PlainActionCreatesRecord ==
  \A w \in Workers :
    ( /\ Accepted(w)
      /\ msg[w].action \in ActionEnum \ {"regenerate"}
      /\ ~hist[w].pre.exists ) =>
      /\ pc[w] = "call_provider" =>
           /\ JobOf(w) = NewJobRecord(msg[w])
           /\ JobOf(w).postId = msg[w].post_id
           /\ JobOf(w).status = "processing"
           /\ JobOf(w).retry_count = 0
           /\ JobOf(w).max_retries = 3
           /\ hist[w].jobWrites = 1
      /\ pc[w] = "done" => (hist[w].path = "create" /\ Truthy(JobOf(w)))
      /\ hist[w].calls > 0 => hist[w].path = "create"
      /\ pc[w] \in {"get_existing", "save_initial", "call_provider"} => hist[w].calls = 0

C6_Witness ==
  \E w \in Workers :
    /\ pc[w] = "call_provider"
    /\ msg[w].action = "updated"
    /\ ~hist[w].pre.exists
    /\ JobOf(w).status = "processing"
    /\ JobOf(w).retry_count = 0

\* C7: from the arrival of an invocation on an existing JobRecord to its end,
\* and so from one non-overlapping invocation to the next, the persisted
\* retry_count is never below the value the invocation arrived on.
C7_RetryCountNeverDecreases ==
  \A w \in Workers :
    (Accepted(w) /\ hist[w].pre.exists) =>
      /\ Truthy(JobOf(w))
      /\ JobOf(w).retry_count >= hist[w].pre.retry_count

C7_Witness ==
  \E w \in Workers :
    /\ Finished(w)
    /\ hist[w].pre.exists
    /\ JobOf(w).status = "error"
    /\ JobOf(w).retry_count = hist[w].pre.retry_count + 1

\* C8: a valid created message that arrives where no JobRecord exists, with a
\* provider that returns a JSON object whose sections list holds well-formed
\* sections, ends with the JobRecord completed at retry_count 0, completedAt and
\* generatedContent set, sections = the provider's sections, a GeneratedPost
\* (id = post id, status generated) persisted, and process_message returning.
C8_CreatedMessageCompletes ==
  \A w \in Workers :
    ( /\ Finished(w)
      /\ msg[w].action = "created"
      /\ ~hist[w].pre.exists
      /\ hist[w].given \in ProviderTexts
      /\ HasSections(hist[w].given)
      /\ SectionsValid(hist[w].given)
      /\ hist[w].given.sections # << >> ) =>
      /\ JobOf(w).status = "completed"
      /\ JobOf(w).retry_count = 0
      /\ JobOf(w).completedAt = Now
      /\ JobOf(w).generatedContent = hist[w].given
      /\ JobOf(w).sections = Some(hist[w].given.sections)
      /\ Truthy(GeneratedOf(w))
      /\ GeneratedOf(w).id = msg[w].post_id
      /\ GeneratedOf(w).status = "generated"
      /\ outcome[w] = "returned"

\* C9: an invocation that arrives on a live JobRecord with retry_count >=
\* max_retries sets status failed_permanently, errorAt and error = 'Exceeded
\* maximum retry attempts (N)', leaves retry_count as it was, returns, and
\* neither calls the provider nor writes a GeneratedPost.
C9_CeilingMarksPermanentFailure ==
  \A w \in Workers :
    ( /\ Accepted(w)
      /\ ArrivedOnLive(w)
      /\ hist[w].pre.retry_count >= hist[w].pre.max_retries ) =>
      /\ hist[w].calls = 0
      /\ hist[w].genWrites = 0
      /\ JobOf(w).retry_count = hist[w].pre.retry_count
      /\ pc[w] = "done" =>
           /\ JobOf(w).status = "failed_permanently"
           /\ JobOf(w).errorAt = Now
           /\ JobOf(w).error = ExceededText(hist[w].pre.max_retries)
           /\ hist[w].jobWrites = 1
           /\ outcome[w] = "returned"

C9_Witness ==
  \E w \in Workers :
    /\ Finished(w)
    /\ hist[w].pre.exists
    /\ hist[w].pre.status = "completed"
    /\ hist[w].pre.retry_count = hist[w].pre.max_retries
    /\ JobOf(w).status = "failed_permanently"
    /\ outcome[w] = "returned"

\* C10: an invocation that arrives on a live JobRecord with retry_count <
\* max_retries has persisted retry_count + 1 and status processing when it is
\* about to call the generation orchestrator, has not called it before, and
\* has called it once when it ends.
C10_RetryIsPersistedBeforeGeneration ==
  \A w \in Workers :
    ( /\ Accepted(w)
      /\ ArrivedOnLive(w)
      /\ hist[w].pre.retry_count < hist[w].pre.max_retries ) =>
      /\ pc[w] \in {"get_original", "get_existing", "update_retry", "call_provider"} =>
           hist[w].calls = 0
      /\ pc[w] = "call_provider" =>
           /\ JobOf(w).retry_count = hist[w].pre.retry_count + 1
           /\ JobOf(w).status = "processing"
           /\ JobOf(w).processedAt = Now
           /\ hist[w].jobWrites = 1
      /\ pc[w] = "done" => hist[w].calls = 1

C10_Witness ==
  \E w \in Workers :
    /\ pc[w] = "call_provider"
    /\ ArrivedOnLive(w)
    /\ hist[w].pre.status = "completed"
    /\ JobOf(w).retry_count = hist[w].pre.retry_count + 1
    /\ JobOf(w).status = "processing"

\* C11: for a regenerate message whose original post exists, each of title,
\* content, keywords and focus that the incoming Brief carries keeps its incoming
\* value in the Brief handed to generation, and each that it does not carry is
\* taken from the original post when the original has it.
C11_MergeFillsOnlyAbsentFields ==
  \A w \in Workers :
    ( /\ Generating(w)
      /\ msg[w].action = "regenerate"
      /\ Truthy(OriginalOf(w)) ) =>
      \A f \in MergedFields :
        /\ f \in DOMAIN hist[w].incoming => hist[w].brief[f] = hist[w].incoming[f]
        /\ (f \notin DOMAIN hist[w].incoming /\ f \in DOMAIN OriginalOf(w))
              => hist[w].brief[f] = OriginalOf(w)[f]

\* C12: for a regenerate message whose incoming Brief has only feedback set and an
\* original post that has a title and a content, the Brief handed to
\* generate_blog_post has the original's title and content and the incoming
\* feedback.
C12_FeedbackOnlyBriefIsFilled ==
  \A w \in Workers :
    ( /\ Generating(w)
      /\ msg[w].action = "regenerate"
      /\ DOMAIN hist[w].incoming = {"id", "feedback"}
      /\ {"title", "content"} \subseteq DOMAIN OriginalOf(w) ) =>
      /\ hist[w].brief.title = OriginalOf(w).title
      /\ hist[w].brief.content = OriginalOf(w).content
      /\ hist[w].brief.feedback = hist[w].incoming.feedback

C12_Witness ==
  \E w \in Workers :
    /\ Generating(w)
    /\ msg[w].action = "regenerate"
    /\ DOMAIN hist[w].incoming = {"id", "feedback"}
    /\ hist[w].brief.title = "T"
    /\ hist[w].brief.content = "C"
    /\ hist[w].brief.feedback = "fb"

\* C13 as claimed: a regenerate invocation that ends after its lookup found no
\* original post has by then created the JobRecord (processing, retry_count 0) or
\* incremented the retry_count of the record it found, has not called the
\* provider, and raises.
C13_LookupFollowsJobState ==
  \A w \in Workers :
    ( /\ Finished(w)
      /\ msg[w].action = "regenerate"
      /\ hist[w].original = "missing" ) =>
      /\ Truthy(JobOf(w))
      /\ JobOf(w).status = "processing"
      /\ JobOf(w).retry_count = IF hist[w].pre.exists THEN hist[w].pre.retry_count + 1 ELSE 0
      /\ hist[w].calls = 0
      /\ outcome[w] = "raised"

\* C13 as amended: the regeneration lookup precedes the job-state step; a
\* regenerate invocation whose original post is not found raises after that one
\* read, having taken no path of the job-state step, written nothing and not
\* called the provider.
C13_LookupPrecedesJobState ==
  \A w \in Workers :
    ( /\ Finished(w)
      /\ msg[w].action = "regenerate"
      /\ hist[w].original = "missing" ) =>
      /\ outcome[w] = "raised"
      /\ HttpStatus(outcome[w]) = HTTP_500_INTERNAL_SERVER_ERROR
      /\ hist[w].path = "none"
      /\ hist[w].reads = 1
      /\ hist[w].jobWrites = 0
      /\ hist[w].genWrites = 0
      /\ hist[w].calls = 0

C13_Witness ==
  \E w \in Workers :
    /\ Finished(w)
    /\ msg[w].action = "regenerate"
    /\ hist[w].original = "missing"
    /\ outcome[w] = "raised"
    /\ hist[w].reads = 1

C15_ReplayOfCompletedRegenerates ==
  \A w \in Workers :
    ( Accepted(w) /\ ArrivedOnCompleted(w) ) =>
      /\ pc[w] = "call_provider" =>
            /\ JobOf(w).status = "processing"
            /\ JobOf(w).retry_count = hist[w].pre.retry_count + 1
      /\ Finished(w) =>
            /\ hist[w].calls = 1
            /\ hist[w].genWrites = 1 =>
                  /\ GeneratedOf(w).generatedContent = hist[w].given
                  /\ GeneratedOf(w).status = "generated"
                  /\ JobOf(w).status = "completed"
                  /\ JobOf(w).retry_count = hist[w].pre.retry_count + 1
                  /\ outcome[w] = "returned"

\* C15 as amended: the same for a completed JobRecord whose retry_count is below
\* max_retries.
C15_ReplayBelowCeilingRegenerates ==
  \A w \in Workers :
    ( /\ Accepted(w)
      /\ ArrivedOnCompleted(w)
      /\ hist[w].pre.retry_count < hist[w].pre.max_retries ) =>
      /\ pc[w] = "call_provider" =>
            /\ JobOf(w).status = "processing"
            /\ JobOf(w).retry_count = hist[w].pre.retry_count + 1
      /\ Finished(w) =>
            /\ hist[w].calls = 1
            /\ hist[w].genWrites = 1 =>
                  /\ GeneratedOf(w).generatedContent = hist[w].given
                  /\ GeneratedOf(w).status = "generated"
                  /\ JobOf(w).status = "completed"
                  /\ JobOf(w).retry_count = hist[w].pre.retry_count + 1
                  /\ outcome[w] = "returned"

C15_Witness ==
  \E w \in Workers :
    /\ Finished(w)
    /\ ArrivedOnCompleted(w)
    /\ hist[w].pre.retry_count = 1
    /\ hist[w].genWrites = 1
    /\ JobOf(w).status = "completed"
    /\ JobOf(w).retry_count = 2

\* C16: under any interleaving of invocations for one post id, once the JobRecord
\* is persisted with status failed_permanently no step changes its status and no
\* provider call for that post id is made.
C16_FailedPermanentlyIsAbsorbing ==
  [][ \A id \in PostIds :
        ( Truthy(Job(id)) /\ Job(id).status = "failed_permanently" ) =>
          /\ Job(id)'.status = "failed_permanently"
          /\ stats'[id].calls = stats[id].calls ]_vars

\* C17 as claimed: an invocation that arrives on a completed JobRecord ends with
\* the JobRecord completed.
C17_CompletedIsAbsorbing ==
  \A w \in Workers :
    ( Finished(w) /\ ArrivedOnCompleted(w) ) => JobOf(w).status = "completed"

\* C17 as amended: an invocation that arrives on a completed JobRecord ends with
\* the JobRecord failed_permanently when the record was at the ceiling, completed
\* when its generation succeeded, and otherwise error, or failed_permanently when
\* the incremented retry_count reached the ceiling; never processing.
C17_CompletedIsReprocessed ==
  \A w \in Workers :
    ( Finished(w) /\ ArrivedOnCompleted(w) ) =>
      JobOf(w).status =
        IF hist[w].pre.retry_count >= hist[w].pre.max_retries THEN "failed_permanently"
        ELSE IF hist[w].genWrites = 1 THEN "completed"
        ELSE IF hist[w].pre.retry_count + 1 >= hist[w].pre.max_retries
        THEN "failed_permanently"
        ELSE "error"

C17_Witness ==
  \E w \in Workers :
    /\ Finished(w)
    /\ ArrivedOnCompleted(w)
    /\ hist[w].pre.retry_count = 0
    /\ hist[w].calls = 1
    /\ JobOf(w).status = "error"

\* C18: under any interleaving of invocations for one post id, no step replaces
\* the persisted retry_count of a JobRecord by a smaller value.
C18_RetryCountIsMonotone ==
  [][ \A id \in PostIds :
        ( Truthy(Job(id)) /\ Truthy(Job(id)') ) =>
          Get(Job(id)', "retry_count", 0) >= Get(Job(id), "retry_count", 0) ]_vars

\* C19: an invocation whose failure-path update of the JobRecord failed ends by
\* raising, whatever the retry_count it re-read.
C19_UnrecordedFailurePropagates ==
  \A w \in Workers :
    ( Finished(w) /\ hist[w].unrecorded ) => outcome[w] = "raised"

\* C20: when the provider call, the construction of the GeneratedPost or its
\* save fails, generate_blog_post returns a result with status error and an
\* error message, and the invocation ends with the JobRecord at status error, or
\* failed_permanently when its retry_count has reached max_retries; never at
\* processing.
C20_OrchestratorReturnsErrorResult ==
  \A w \in Workers :
    GenerationFailed(w) =>
      /\ loc[w].result.status = "error"
      /\ loc[w].result.error \notin {None, ""}
      /\ loc[w].result.generated_post_id = ""
      /\ Finished(w) =>
            JobOf(w).status = IF JobOf(w).retry_count >= JobOf(w).max_retries
                              THEN "failed_permanently" ELSE "error"

C20_Witness ==
  \E w \in Workers :
    /\ Finished(w)
    /\ GenerationFailed(w)
    /\ hist[w].given = JsonWithSections(<<WellFormedSection>>)
    /\ loc[w].result.error = "PersistenceError"
    /\ JobOf(w).status = "error"

C22_NonEnumActionIsRejected ==
  \A w \in Workers :
    ( msg[w] # NoMsg /\ msg[w].action \notin ActionEnum ) =>
      /\ hist[w].jobWrites = 0
      /\ hist[w].calls = 0
      /\ Finished(w) => outcome[w] = "raised"

\* C23: an invocation on the creation branch whose initial save has failed has
\* ended by raising, without a provider call and without writing a
\* GeneratedPost.
C23_FailedInitialSavePropagates ==
  \A w \in Workers :
    ( Accepted(w) /\ hist[w].path = "create" /\ hist[w].jobWrites = 0
      /\ pc[w] # "save_initial" ) =>
      /\ pc[w] = "done"
      /\ outcome[w] = "raised"
      /\ hist[w].calls = 0
      /\ hist[w].genWrites = 0

C23_Witness ==
  \E w \in Workers :
    /\ Finished(w)
    /\ hist[w].path = "create"
    /\ hist[w].jobWrites = 0
    /\ outcome[w] = "raised"
    /\ ~Truthy(JobOf(w))

\* C24: an invocation calls the provider at most once; it stands before the
\* call, or has made it, only on the creation or retry branch and after its own
\* write of status processing succeeded; before the call the stored JobRecord
\* has status processing; on the failed_permanently and ceiling branches it
\* makes no call.
C24_ProviderOnceAfterProcessingPersisted ==
  \A w \in Workers :
    Accepted(w) =>
      /\ hist[w].calls <= 1
      /\ ( hist[w].calls >= 1 \/ pc[w] = "call_provider" ) =>
            ( hist[w].path \in {"create", "retry"} /\ hist[w].jobWrites >= 1 )
      /\ pc[w] = "call_provider" =>
            ( hist[w].jobWrites = 1 /\ hist[w].calls = 0
              /\ Truthy(JobOf(w)) /\ JobOf(w).status = "processing" )
      /\ hist[w].path \in {"terminal", "exceeded"} => hist[w].calls = 0

C24_Witness ==
  \E w \in Workers :
    /\ Finished(w)
    /\ hist[w].path = "retry"
    /\ hist[w].calls = 1
    /\ hist[w].jobWrites >= 2

\* C25 as claimed: with non-overlapping invocations and store operations that
\* may fail, an invocation that has returned success leaves the JobRecord of its
\* post id with status completed or failed_permanently.
C25_SuccessLeavesTerminalStatus ==
  \A w \in Workers :
    ( Finished(w) /\ outcome[w] = "returned" ) =>
      ( Truthy(JobOf(w)) /\ JobOf(w).status \in {"completed", "failed_permanently"} )

\* C26 as claimed: when one valid message, of any action, is delivered again
\* after every invocation that raised, there are at most max_retries + 1
\* invocations and the last of that many returns success.
C26_RedeliveryIsBounded ==
  \A w \in Workers :
    Accepted(w) =>
      /\ delivered <= DefaultMaxRetries + 1
      /\ ( Finished(w) /\ delivered = DefaultMaxRetries + 1 ) => outcome[w] = "returned"

\* C26 as amended: the same bound for every message but a regenerate whose post
\* id has no stored document.
C26_RedeliveryIsBoundedOncePastLookup ==
  \A w \in Workers :
    ( Accepted(w)
      /\ ~( msg[w].action = "regenerate" /\ ~Truthy(OriginalOf(w)) ) ) =>
      /\ delivered <= DefaultMaxRetries + 1
      /\ ( Finished(w) /\ delivered = DefaultMaxRetries + 1 ) => outcome[w] = "returned"

C26_Witness ==
  \E w \in Workers :
    /\ Finished(w)
    /\ delivered = DefaultMaxRetries + 1
    /\ outcome[w] = "returned"
    /\ hist[w].given = ProviderRaise
    /\ JobOf(w).status = "failed_permanently"

\* C27 as claimed: under any interleaving of overlapping deliveries for one post
\* id with a provider that always fails, the provider is called at most
\* max_retries + 1 times for that id.
C27_ProviderCallsAreBounded ==
  \A id \in PostIds : stats[id].calls <= DefaultMaxRetries + 1

\* C28: in every state a JobRecord with status completed has a GeneratedPost of
\* the same post id with status generated; the GeneratedPost of a post id
\* changes only in the step where an invocation for that id saves the post that
\* its generation built, so a failed attempt leaves it as it was; and a
\* JobRecord becomes completed only in an invocation that has written its
\* GeneratedPost.
C28_CompletedHasGeneratedPost ==
  /\ [](\A id \in PostIds :
          ( Truthy(Job(id)) /\ Get(Job(id), "status", None) = "completed" ) =>
            ( Truthy(Generated(id)) /\ Generated(id).id = id
              /\ Generated(id).status = "generated" ))
  /\ [][\A id \in PostIds :
          /\ Generated(id)' # Generated(id) =>
                \E w \in Workers :
                  /\ pc[w] = "save_generated" /\ pc'[w] = "update_completed"
                  /\ msg[w].post_id = id
                  /\ hist[w].calls = 1
                  /\ Generated(id)' = loc[w].post
                  /\ GeneratedPostValid(Generated(id)')
          /\ ( Get(Job(id)', "status", None) = "completed"
                /\ Get(Job(id), "status", None) # "completed" ) =>
                \E w \in Workers :
                  /\ pc[w] = "update_completed"
                  /\ msg[w].post_id = id
                  /\ hist[w].genWrites = 1
     ]_vars

C28_Witness ==
  \E w \in Workers :
    /\ Finished(w)
    /\ hist[w].calls = 1
    /\ hist[w].genWrites = 0
    /\ outcome[w] = "raised"
    /\ Truthy(GeneratedOf(w))
    /\ GeneratedOf(w).status = "generated"
    /\ JobOf(w).status = "error"
====
